---- MODULE Spec2Model ----
(***************************************************************************)
(* Model of the digest scripts of the repository:                          *)
(*   src/digest.py   - split_chunks, tg_send, the fetchers and the section *)
(*                     builders (listings, status, macro, derivatives)     *)
(*   src/notifier.py - the one-shot notifier (build_message, tg_send)      *)
(* Strings are sequences of one-character strings; instants are integers   *)
(* (a local day is Day units long); a Python exception is the value Raise. *)
(***************************************************************************)
EXTENDS Integers, Sequences, FiniteSets, TLC

VARIABLES
    \* split_chunks (digest.py)
    text, max_len, buf, parts, cut, cpc,
    \* section builders (digest.py): the builder running, its configuration,
    \* now_utc(), the offset of the time zone, the sources/events still to
    \* read, the fetched list being iterated, the two buckets, the position
    \* and the returned section
    sect, cfg, now, tz, srcs_left, it, today, tomorrow, spc, section,
    \* a call of a fetcher (digest.py) and what it returned
    call, ret,
    \* a run of notifier.py, or a call of tg_send of digest.py: the
    \* environment, the position, the data requests issued, the length of the
    \* text, the loop offset, the outcome of each send in order, whether
    \* tg_send raised, the exit code
    prog, BOT_TOKEN, CHAT_ID, npc, fetches, text_len, off, send_log, raised,
    exit_code

chunkVars == <<text, max_len, buf, parts, cut, cpc>>
sectVars == <<sect, cfg, now, tz, srcs_left, it, today, tomorrow, spc, section>>
fetchVars == <<call, ret>>
delivVars == <<prog, BOT_TOKEN, CHAT_ID, npc, fetches, text_len, off, send_log,
               raised, exit_code>>
vars == <<chunkVars, sectVars, fetchVars, delivVars>>

----------------------------------------------------------------------------
(* Bounds *)
MaxLen == 5        \* longest text given to split_chunks
MaxMaxLen == 3     \* largest max_len given to split_chunks
MaxSources == 3    \* feeds configured for a section
MaxEntries == 2    \* entries of one feed
MaxEvents == 6     \* events of the macro calendar
MaxInstr == 2      \* instruments of one Deribit book summary
MaxChunks == 3     \* chunks of the longest text sent by notifier.py

----------------------------------------------------------------------------
(* Generic helpers *)
NL == "\n"
Chars == {"a", "b", NL}

SetMax(S) == CHOOSE x \in S : \A y \in S : y <= x
Min2(a, b) == IF a <= b THEN a ELSE b

SeqsUpTo(S, n) == UNION {[1..k -> S] : k \in 0..n}

RECURSIVE Concat(_)
Concat(ss) == IF ss = <<>> THEN <<>> ELSE Head(ss) \o Concat(Tail(ss))

----------------------------------------------------------------------------
(* split_chunks, digest.py:23-34 *)

\* str.rfind(ch, start, end): highest 0-based index i, start <= i < end,
\* with s[i] = ch; -1 when there is none.
RFindFrom1(s, ch, start, end) ==
    LET idx == {i \in (start + 1)..(Min2(end, Len(s)) - 1) : s[i + 1] = ch}
    IN IF idx = {} THEN -1 ELSE SetMax(idx)

RFind(s, ch, start, end) ==
    LET idx == {i \in start..(Min2(end, Len(s)) - 1) : s[i + 1] = ch}
    IN IF idx = {} THEN -1 ELSE SetMax(idx)

\* str.lstrip(ch): drop the leading run of ch.
LStripOne(s, ch) == IF s # <<>> THEN Tail(s) ELSE s

RECURSIVE LStrip(_, _)
LStrip(s, ch) ==
    IF s # <<>> /\ Head(s) = ch THEN LStrip(Tail(s), ch) ELSE s

\* lines 27-29: cut = buf.rfind("\n", 0, max_len); -1 becomes max_len
CutPosPastLimit(b, m) ==
    LET c == RFind(b, NL, 0, m) IN IF c = -1 THEN m + 1 ELSE c

CutPos(b, m) ==
    LET c == RFind(b, NL, 0, m) IN IF c = -1 THEN m ELSE c

\* buf[:c] and buf[c:]
Take(s, c) == SubSeq(s, 1, Min2(c, Len(s)))
DropNothing(s, c) == s

Drop(s, c) == SubSeq(s, Min2(c, Len(s)) + 1, Len(s))

ChunkStart ==
    /\ text \in SeqsUpTo(Chars, MaxLen)
    /\ max_len \in 1..MaxMaxLen
    /\ buf = text
    /\ parts = <<>>
    /\ cut = -1
    /\ cpc = "loop"

\* one iteration of `while len(buf) > max_len` (lines 26-31)
ChunkLoop ==
    /\ cpc = "loop"
    /\ Len(buf) > max_len
    /\ cut' = CutPos(buf, max_len)
    /\ parts' = Append(parts, Take(buf, cut'))
    /\ buf' = LStrip(Drop(buf, cut'), NL)
    /\ UNCHANGED <<text, max_len, cpc>>
    /\ UNCHANGED <<sectVars, fetchVars, delivVars>>

\* loop exit, `if buf: parts.append(buf)`, return (lines 32-34)
ChunkReturn ==
    /\ cpc = "loop"
    /\ Len(buf) <= max_len
    /\ parts' = IF buf # <<>> THEN Append(parts, buf) ELSE parts
    /\ cpc' = "done"
    /\ UNCHANGED <<text, max_len, buf, cut>>
    /\ UNCHANGED <<sectVars, fetchVars, delivVars>>

ChunkNext == ChunkLoop \/ ChunkReturn

----------------------------------------------------------------------------
(* Time: digest.py:99-103, 120-124, 149-153 *)

Day == 2            \* timedelta(days=1), in model time units (12 h each)
HoursPerDay == 24   \* timedelta(hours=h) is h/24 of a day
N == 5              \* cap of a bucket

Nows == {Day}
TzOffsets == {0, 1}

\* now_local.replace(hour=0, minute=0, second=0, microsecond=0): the instant
\* of the local midnight before n, in a zone z units ahead of UTC
TodayStart(n, z) == ((n + z) \div Day) * Day - z
TodayEnd(n, z) == TodayStart(n, z) + Day
TomorrowEnd(n, z) == TodayStart(n, z) + 2 * Day

WithinDayShifted(dt, day_start, day_end) == day_start < dt /\ dt <= day_end

\* within_day, digest.py:49-50
WithinDay(dt, day_start, day_end) == day_start <= dt /\ dt < day_end

\* instants an entry of a feed can carry: the day before today's start up to
\* the start of the day after tomorrow
EntryTimes(n, z) == (TodayStart(n, z) - 1)..TomorrowEnd(n, z)

----------------------------------------------------------------------------
(* sorted(), stable *)

RECURSIVE InsertAsc(_, _)
InsertAsc(x, s) ==
    IF s = <<>> THEN <<x>>
    ELSE IF Head(s).time <= x.time THEN <<Head(s)>> \o InsertAsc(x, Tail(s))
    ELSE <<x>> \o s

RECURSIVE InsertDesc(_, _)
InsertDesc(x, s) ==
    IF s = <<>> THEN <<x>>
    ELSE IF Head(s).time >= x.time THEN <<Head(s)>> \o InsertDesc(x, Tail(s))
    ELSE <<x>> \o s

RECURSIVE SortFrom(_, _, _)
SortFrom(s, acc, desc) ==
    IF s = <<>> THEN acc
    ELSE SortFrom(Tail(s),
                  IF desc THEN InsertDesc(Head(s), acc)
                  ELSE InsertAsc(Head(s), acc),
                  desc)

Unsorted(s) == s

\* sorted(s, key=lambda x: x["time"])
SortAsc(s) == SortFrom(s, <<>>, FALSE)

\* sorted(s, key=lambda x: x["time"], reverse=True)
SortDesc(s) == SortFrom(s, <<>>, TRUE)

----------------------------------------------------------------------------
(* Fetchers: digest.py:52-84 *)

Absent == [k |-> "absent"]     \* the key is missing (or the value is empty)
Bad == [k |-> "bad"]           \* a value the parser rejects
Null == [k |-> "null"]         \* the key is present with the value None
Ok(v) == [k |-> "ok", v |-> v]

Ret(v) == [raised |-> FALSE, value |-> v]
Raise == [raised |-> TRUE]

TitleList == "Exchange X will list TOKEN"
TitleOther == "Scheduled maintenance"

\* any(k in title.lower() for k in [...]), digest.py:96-97
HasListingKeyword(title) == title = TitleList

\* normalize_entry_time, digest.py:52-61: the first of published, updated,
\* created that is present and parses; now_utc() otherwise
NormalizeEntryTime(e, n) ==
    IF e.published.k = "ok" THEN e.published.v
    ELSE IF e.updated.k = "ok" THEN e.updated.v
    ELSE IF e.created.k = "ok" THEN e.created.v
    ELSE n

\* e.get("title", "").strip(): "" when the key is missing, AttributeError
\* when the value is None
EntryTitle(e) ==
    IF e.title.k = "ok" THEN Ret(e.title.v)
    ELSE IF e.title.k = "absent" THEN Ret("")
    ELSE Raise

\* the body of the try of fetch_rss_items, digest.py:74-82
RECURSIVE RssLoop(_, _, _)
RssLoop(entries, items, n) ==
    IF entries = <<>> THEN Ret(items)
    ELSE LET e == Head(entries)
             t == NormalizeEntryTime(e, n)
             title == EntryTitle(e)
         IN IF title.raised THEN Raise
            ELSE RssLoop(Tail(entries),
                         Append(items, [title |-> title.value, time |-> t]),
                         n)

RssBody(feed, limit, n) ==
    IF feed.parse_raises THEN Raise
    ELSE RssLoop(Take(feed.entries, limit), <<>>, n)

FetchRssItemsNoCatch(feed, limit, n) == RssBody(feed, limit, n)

\* fetch_rss_items, digest.py:72-84: the result of the body, [] on exception
FetchRssItems(feed, limit, n) ==
    LET r == RssBody(feed, limit, n)
    IN IF r.raised THEN Ret(<<>>) ELSE r

JsonBody(resp) ==
    IF resp.request_raises THEN Raise
    ELSE IF resp.status_code = 200
         THEN (IF resp.body.k = "ok" THEN Ret(Ok(resp.body.v)) ELSE Raise)
         ELSE Ret(Null)

FetchJsonNoCatch(resp) == JsonBody(resp)

\* fetch_json, digest.py:63-70: r.json() on status 200, None otherwise and on
\* any exception
FetchJson(resp) ==
    LET r == JsonBody(resp)
    IN IF r.raised THEN Ret(Null) ELSE r

----------------------------------------------------------------------------
(* section_listings and section_status, digest.py:88-139 *)

NoSection == [today |-> <<>>, tomorrow |-> <<>>]

DefaultCfg ==
    [enabled |-> TRUE, regions |-> {}, high_impact_only |-> FALSE,
     lookahead_hours |-> 48, deribit_expiry_notional_min_usd |-> 2,
     funding_extreme_threshold_bps |-> 10,
     funding_exchanges |-> {"binance", "bybit"}, tickers |-> <<"BTC">>]

\* the feeds a section can meet: entries stamped around today and tomorrow
\* (or with an unparseable date); a listings feed announces listings, and
\* carries one entry without a listing keyword
SectionEntries(s, n, z) ==
    {[published |-> p, updated |-> Absent, created |-> Absent,
      title |-> Ok(IF s = "listings" THEN TitleList ELSE TitleOther)] :
        p \in {Ok(t) : t \in EntryTimes(n, z)} \cup {Bad}}
    \cup (IF s = "listings"
          THEN {[published |-> Ok(n), updated |-> Absent, created |-> Absent,
                 title |-> Ok(TitleOther)]}
          ELSE {})

SectionFeeds(s, n, z) ==
    {[parse_raises |-> FALSE, entries |-> es] :
        es \in SeqsUpTo(SectionEntries(s, n, z), MaxEntries)}
    \cup {[parse_raises |-> TRUE, entries |-> <<>>]}

FeedStart ==
    /\ sect \in {"listings", "status"}
    /\ cfg \in {[DefaultCfg EXCEPT !.enabled = b] :
                    b \in IF sect = "listings" THEN BOOLEAN ELSE {TRUE}}
    /\ now \in Nows
    /\ tz \in TzOffsets
    /\ srcs_left \in 0..MaxSources
    /\ it = <<>>
    /\ today = <<>>
    /\ tomorrow = <<>>
    /\ spc = "fetch"
    /\ section = NoSection

\* digest.py:89-90
ListingsDisabled ==
    /\ sect = "listings" /\ spc = "fetch"
    /\ ~cfg.enabled
    /\ section' = NoSection
    /\ spc' = "done"
    /\ UNCHANGED <<sect, cfg, now, tz, srcs_left, it, today, tomorrow>>
    /\ UNCHANGED <<chunkVars, fetchVars, delivVars>>

\* the next source of srcs.items(): it = fetch_rss_items(url, limit)
\* (digest.py:93-94 with limit 40, digest.py:126-127 with limit 30)
FetchSource ==
    /\ sect \in {"listings", "status"} /\ spc = "fetch"
    /\ cfg.enabled
    /\ it = <<>> /\ srcs_left > 0
    /\ \E feed \in SectionFeeds(sect, now, tz) :
          it' = FetchRssItems(feed, IF sect = "listings" THEN 40 ELSE 30,
                              now).value
    /\ srcs_left' = srcs_left - 1
    /\ UNCHANGED <<sect, cfg, now, tz, today, tomorrow, spc, section>>
    /\ UNCHANGED <<chunkVars, fetchVars, delivVars>>

\* where the entry e of a feed goes: the keyword filter of section_listings
\* (digest.py:96-98), then the two within_day tests (digest.py:106-110,
\* 128-133)
Bucket(s, e, n, z) ==
    IF s = "listings" /\ ~HasListingKeyword(e.title) THEN "filtered"
    ELSE IF WithinDay(e.time, TodayStart(n, z), TodayEnd(n, z)) THEN "today"
    ELSE IF WithinDay(e.time, TodayEnd(n, z), TomorrowEnd(n, z)) THEN "tomorrow"
    ELSE "dropped"

\* one entry of the fetched list (the "source" label that the builders add
\* to the entry is left out)
BucketEntry ==
    /\ sect \in {"listings", "status"} /\ spc = "fetch"
    /\ it # <<>>
    /\ LET e == Head(it)
           b == Bucket(sect, e, now, tz)
       IN /\ today' = IF b = "today" THEN Append(today, e) ELSE today
          /\ tomorrow' = IF b = "tomorrow" THEN Append(tomorrow, e) ELSE tomorrow
    /\ it' = Tail(it)
    /\ UNCHANGED <<sect, cfg, now, tz, srcs_left, spc, section>>
    /\ UNCHANGED <<chunkVars, fetchVars, delivVars>>

\* digest.py:111-116, 134-139
FeedSectionReturn ==
    /\ sect \in {"listings", "status"} /\ spc = "fetch"
    /\ cfg.enabled
    /\ it = <<>> /\ srcs_left = 0
    /\ section' = [today |-> Take(SortDesc(today), N),
                   tomorrow |-> Take(SortDesc(tomorrow), N)]
    /\ spc' = "done"
    /\ UNCHANGED <<sect, cfg, now, tz, srcs_left, it, today, tomorrow>>
    /\ UNCHANGED <<chunkVars, fetchVars, delivVars>>

----------------------------------------------------------------------------
(* section_macro_forexfactory, digest.py:141-215 *)

\* region_countries, digest.py:156-160
RegionCountries(r) ==
    IF r = "US" THEN {"USD"}
    ELSE IF r = "UK" THEN {"GBP"}
    ELSE IF r = "EU" THEN {"EUR", "DEU", "DE", "FRA", "ITA", "ESP"}
    ELSE {}

\* digest.py:161-163
Allowed(regions) == UNION {RegionCountries(r) : r \in regions}

\* impact_pass, digest.py:165-169 ("high" in imp, "medium" in imp on the
\* lower-cased impact; None counts as "")
ImpactPass(impact, high_only) ==
    LET imp == IF impact.k = "ok" THEN impact.v ELSE ""
    IN IF high_only THEN imp = "High"
       ELSE imp = "High" \/ imp = "Medium"

\* timedelta(hours=lookahead_h), digest.py:151
EndLocal(n, c) == n + (c.lookahead_hours * Day) \div HoursPerDay

MacroCfgs ==
    {[DefaultCfg EXCEPT !.enabled = FALSE],
     DefaultCfg,
     [DefaultCfg EXCEPT !.regions = {"US"}, !.high_impact_only = TRUE,
                        !.lookahead_hours = 24],
     [DefaultCfg EXCEPT !.regions = {"APAC"}],
     [DefaultCfg EXCEPT !.regions = {"US", "EU"}, !.high_impact_only = TRUE]}

\* instants an event of the calendar can carry: around now, the end of today
\* and the end of the lookahead window
MacroTimes(n, z, c) ==
    {n - 1, n, TodayEnd(n, z), EndLocal(n, c), EndLocal(n, c) + 1}

\* "timestamp" is an epoch (or missing, or not a number); "date" is read only
\* when "timestamp" is missing
BaseEvent(n) ==
    [timestamp |-> Ok(n), date |-> Absent, country |-> Ok("USD"),
     impact |-> Ok("High")]

MacroEvents(n, z, c) ==
    {[BaseEvent(n) EXCEPT !.timestamp = ts] :
        ts \in {Ok(t) : t \in MacroTimes(n, z, c)} \cup {Bad}}
    \cup {[BaseEvent(n) EXCEPT !.timestamp = Absent, !.date = d] :
            d \in {Ok(n), Absent, Bad}}
    \cup {[BaseEvent(n) EXCEPT !.country = co] :
            co \in {Ok("EUR"), Ok("JPY"), Absent}}
    \cup {[BaseEvent(n) EXCEPT !.impact = im] :
            im \in {Ok("Medium"), Ok("Low"), Absent}}

MacroStart ==
    /\ sect = "macro"
    /\ cfg \in MacroCfgs
    /\ now \in Nows
    /\ tz \in TzOffsets
    /\ srcs_left = 0
    /\ it = <<>>
    /\ today = <<>>
    /\ tomorrow = <<>>
    /\ spc = "fetch"
    /\ section = NoSection

\* digest.py:142-143
MacroDisabled ==
    /\ sect = "macro" /\ spc = "fetch"
    /\ ~cfg.enabled
    /\ section' = NoSection
    /\ spc' = "done"
    /\ UNCHANGED <<sect, cfg, now, tz, srcs_left, it, today, tomorrow>>
    /\ UNCHANGED <<chunkVars, fetchVars, delivVars>>

\* data = fetch_json(url) or [], digest.py:145; the body of a good response
\* is the number of events of the calendar, which MacroEvent then reads one
\* by one
MacroResponses ==
    {[request_raises |-> rr, status_code |-> sc, body |-> b] :
        rr \in BOOLEAN, sc \in {200, 503},
        b \in {Ok(k) : k \in 0..MaxEvents} \cup {Bad}}

MacroFetch ==
    /\ sect = "macro" /\ spc = "fetch"
    /\ cfg.enabled
    /\ \E resp \in MacroResponses :
          LET r == FetchJson(resp).value
          IN srcs_left' = IF r.k = "ok" THEN r.v ELSE 0
    /\ spc' = "loop"
    /\ UNCHANGED <<sect, cfg, now, tz, it, today, tomorrow, section>>
    /\ UNCHANGED <<chunkVars, fetchVars, delivVars>>

\* the time of an event, digest.py:175-184: Raise stands for the exception
\* of int(ts) or dtp.parse(d), Null for the `continue` of line 182
EventTime(ev) ==
    IF ev.timestamp.k = "ok" THEN Ret(Ok(ev.timestamp.v))
    ELSE IF ev.timestamp.k = "bad" THEN Raise
    ELSE IF ev.date.k = "ok" THEN Ret(Ok(ev.date.v))
    ELSE IF ev.date.k = "bad" THEN Raise
    ELSE Ret(Null)

\* where the event ev goes, digest.py:173-210
MacroBucket(ev, n, z, c) ==
    LET et == EventTime(ev)
        country == IF ev.country.k = "ok" THEN ev.country.v ELSE ""
    IN IF et.raised THEN "skipped"
       ELSE IF et.value.k # "ok" THEN "skipped"
       ELSE IF ~(n <= et.value.v /\ et.value.v <= EndLocal(n, c)) THEN "skipped"
       ELSE IF Allowed(c.regions) # {} /\ country \notin Allowed(c.regions)
            THEN "skipped"
       ELSE IF ~ImpactPass(ev.impact, c.high_impact_only) THEN "skipped"
       ELSE IF WithinDay(et.value.v, TodayStart(n, z), TodayEnd(n, z))
            THEN "today"
       ELSE "tomorrow"

\* the line of a kept event; its formatted title is left out
MacroLine(ev) == [time |-> EventTime(ev).value.v]

\* one event of data
MacroEventOn(ev) ==
    /\ sect = "macro" /\ spc = "loop"
    /\ srcs_left > 0
    /\ LET b == MacroBucket(ev, now, tz, cfg)
       IN /\ today' = IF b = "today" THEN Append(today, MacroLine(ev)) ELSE today
          /\ tomorrow' = IF b = "tomorrow" THEN Append(tomorrow, MacroLine(ev))
                         ELSE tomorrow
    /\ srcs_left' = srcs_left - 1
    /\ UNCHANGED <<sect, cfg, now, tz, it, spc, section>>
    /\ UNCHANGED <<chunkVars, fetchVars, delivVars>>

MacroEvent == \E ev \in MacroEvents(now, tz, cfg) : MacroEventOn(ev)

\* digest.py:212-215
MacroReturn ==
    /\ sect = "macro" /\ spc = "loop"
    /\ srcs_left = 0
    /\ section' = [today |-> SortAsc(today), tomorrow |-> SortAsc(tomorrow)]
    /\ spc' = "done"
    /\ UNCHANGED <<sect, cfg, now, tz, srcs_left, it, today, tomorrow>>
    /\ UNCHANGED <<chunkVars, fetchVars, delivVars>>

----------------------------------------------------------------------------
(* section_derivatives, digest.py:263-355: the Deribit expiries and the     *)
(* funding extremes (the source of the open-interest part breaks off at    *)
(* line 365)                                                               *)

Currencies == <<"BTC", "ETH">>      \* digest.py:278

\* float(x or 0.0), digest.py:300-301: 0.0 for a missing value, ValueError
\* for a value that is not a number
FloatOrZero(x) ==
    IF x.k = "ok" THEN Ret(x.v)
    ELSE IF x.k = "bad" THEN Raise
    ELSE Ret(0)

\* the expiry of an instrument, digest.py:288-299: Null stands for the
\* `continue` of line 298, Raise for the ValueError of int(exp_ts)
ExpiryOf(inst) ==
    IF inst.expiration_timestamp.k = "ok"
    THEN Ret(Ok(inst.expiration_timestamp.v))
    ELSE IF inst.expiration_timestamp.k = "bad" THEN Raise
    ELSE IF inst.instrument_name.k = "ok" THEN Ret(Ok(inst.instrument_name.v))
    ELSE Ret(Null)

\* buckets.setdefault(exp_dt, 0.0); buckets[exp_dt] += notional: the dict is
\* a sequence of [exp, notional] in insertion order
RECURSIVE AddNotional(_, _, _)
AddNotional(buckets, exp_dt, notional) ==
    IF buckets = <<>> THEN <<[exp |-> exp_dt, notional |-> notional]>>
    ELSE IF Head(buckets).exp = exp_dt
         THEN <<[exp |-> exp_dt, notional |-> Head(buckets).notional + notional]>>
              \o Tail(buckets)
         ELSE <<Head(buckets)>> \o AddNotional(Tail(buckets), exp_dt, notional)

\* one instrument, digest.py:286-304; an exception leaves the whole loop
InstrumentStep(inst, buckets) ==
    LET exp == ExpiryOf(inst)
        und == FloatOrZero(inst.underlying_price)
        oi == FloatOrZero(inst.open_interest)
    IN IF exp.raised THEN Raise
       ELSE IF exp.value.k # "ok" THEN Ret(buckets)
       ELSE IF und.raised \/ oi.raised THEN Raise
       ELSE Ret(AddNotional(buckets, exp.value.v, oi.value * und.value))

\* for it in res, digest.py:286-304
RECURSIVE GroupByExpiry(_, _)
GroupByExpiry(res, buckets) ==
    IF res = <<>> THEN Ret(buckets)
    ELSE LET r == InstrumentStep(Head(res), buckets)
         IN IF r.raised THEN Raise ELSE GroupByExpiry(Tail(res), r.value)

\* where a line stamped t goes, digest.py:314-317, 337-340, 352-355
DerivBucket(t, n, z) ==
    IF WithinDay(t, TodayStart(n, z), TodayEnd(n, z)) THEN "today"
    ELSE IF WithinDay(t, TodayEnd(n, z), TomorrowEnd(n, z)) THEN "tomorrow"
    ELSE "dropped"

\* for exp_dt, notional in buckets.items(), digest.py:306-317: the lines of
\* the expiries at or above the threshold that go to bucket b
RECURSIVE ExpiryLines(_, _, _, _, _, _)
ExpiryLines(buckets, curr, thr, b, n, z) ==
    IF buckets = <<>> THEN <<>>
    ELSE LET h == Head(buckets)
             rest == ExpiryLines(Tail(buckets), curr, thr, b, n, z)
         IN IF h.notional >= thr /\ DerivBucket(h.exp, n, z) = b
            THEN <<[time |-> h.exp, title |-> curr]>> \o rest
            ELSE rest

DerivCfgs ==
    {[DefaultCfg EXCEPT !.enabled = FALSE],
     DefaultCfg,
     [DefaultCfg EXCEPT !.funding_exchanges = {"bybit"},
                        !.funding_extreme_threshold_bps = 15]}

DeribitTimes(n, z) ==
    {TodayStart(n, z) - 1, TodayStart(n, z), TodayEnd(n, z), TomorrowEnd(n, z)}

BaseInstrument(n, z) ==
    [expiration_timestamp |-> Ok(TodayStart(n, z)), instrument_name |-> Absent,
     underlying_price |-> Ok(1), open_interest |-> Ok(1)]

\* the instruments of a book summary: expiring around today and tomorrow,
\* with the expiry in the name only, or with a field missing or malformed
Instruments(n, z) ==
    {[BaseInstrument(n, z) EXCEPT !.expiration_timestamp = e] :
        e \in {Ok(t) : t \in DeribitTimes(n, z)} \cup {Bad}}
    \cup {[BaseInstrument(n, z) EXCEPT !.expiration_timestamp = Absent,
                                      !.instrument_name = nm] :
            nm \in {Ok(TodayEnd(n, z)), Bad, Absent}}
    \cup {[BaseInstrument(n, z) EXCEPT !.underlying_price = u] :
            u \in {Absent, Bad}}
    \cup {[BaseInstrument(n, z) EXCEPT !.open_interest = o] :
            o \in {Ok(2), Absent, Bad}}

DeribitResponses(n, z) ==
    {[request_raises |-> FALSE, status_code |-> 200, body |-> Ok(res)] :
        res \in SeqsUpTo(Instruments(n, z), MaxInstr)}
    \cup {[request_raises |-> TRUE, status_code |-> 200, body |-> Bad],
          [request_raises |-> FALSE, status_code |-> 503, body |-> Bad],
          [request_raises |-> FALSE, status_code |-> 200, body |-> Bad]}

DerivStart ==
    /\ sect = "derivatives"
    /\ cfg \in DerivCfgs
    /\ now \in Nows
    /\ tz \in TzOffsets
    /\ srcs_left = Len(Currencies)
    /\ it = <<>>
    /\ today = <<>>
    /\ tomorrow = <<>>
    /\ spc = "deribit"
    /\ section = NoSection

\* digest.py:264-265
DerivDisabled ==
    /\ sect = "derivatives" /\ spc = "deribit"
    /\ ~cfg.enabled
    /\ section' = NoSection
    /\ spc' = "done"
    /\ UNCHANGED <<sect, cfg, now, tz, srcs_left, it, today, tomorrow>>
    /\ UNCHANGED <<chunkVars, fetchVars, delivVars>>

\* funding requests of the run: for each ticker, Binance then Bybit, when
\* enabled (digest.py:324-343)
RECURSIVE FundingQueue(_, _)
FundingQueue(tickers, exchanges) ==
    IF tickers = <<>> THEN <<>>
    ELSE (IF "binance" \in exchanges
          THEN <<[asset |-> Head(tickers), exchange |-> "Binance"]>> ELSE <<>>)
         \o (IF "bybit" \in exchanges
             THEN <<[asset |-> Head(tickers), exchange |-> "Bybit"]>> ELSE <<>>)
         \o FundingQueue(Tail(tickers), exchanges)

\* what one iteration of `for curr` does with the response resp,
\* digest.py:279-317: the new (res, items_today, items_tomorrow), and whether
\* an exception ended the block (digest.py:318-319)
DeribitOutcome(resp, curr, res, its_today, its_tomorrow, c, n, z) ==
    IF resp.request_raises
    THEN [aborted |-> TRUE, res |-> res, today |-> its_today,
          tomorrow |-> its_tomorrow]
    ELSE IF resp.status_code # 200
    THEN [aborted |-> FALSE, res |-> res, today |-> its_today,
          tomorrow |-> its_tomorrow]
    ELSE IF resp.body.k # "ok"
    THEN [aborted |-> TRUE, res |-> res, today |-> its_today,
          tomorrow |-> its_tomorrow]
    ELSE LET g == GroupByExpiry(resp.body.v, <<>>)
         IN IF g.raised
            THEN [aborted |-> TRUE, res |-> resp.body.v, today |-> its_today,
                  tomorrow |-> its_tomorrow]
            ELSE [aborted |-> FALSE, res |-> resp.body.v,
                  today |-> its_today \o
                     ExpiryLines(g.value, curr,
                                 c.deribit_expiry_notional_min_usd, "today", n, z),
                  tomorrow |-> its_tomorrow \o
                     ExpiryLines(g.value, curr,
                                 c.deribit_expiry_notional_min_usd, "tomorrow",
                                 n, z)]

\* one currency of the Deribit block; `it` holds res
DeribitCurrency ==
    /\ sect = "derivatives" /\ spc = "deribit"
    /\ cfg.enabled
    /\ srcs_left > 0
    /\ \E resp \in DeribitResponses(now, tz) :
          LET curr == Currencies[Len(Currencies) - srcs_left + 1]
              o == DeribitOutcome(resp, curr, it, today, tomorrow, cfg, now, tz)
              last == o.aborted \/ srcs_left = 1
          IN /\ it' = o.res
             /\ today' = o.today
             /\ tomorrow' = o.tomorrow
             /\ spc' = IF last THEN "funding" ELSE "deribit"
             /\ srcs_left' = IF last
                             THEN Len(FundingQueue(cfg.tickers,
                                                   cfg.funding_exchanges))
                             ELSE srcs_left - 1
    /\ UNCHANGED <<sect, cfg, now, tz, section>>
    /\ UNCHANGED <<chunkVars, fetchVars, delivVars>>

\* a funding rate is a float (digest.py:232, 243); here it is the integer
\* fr * RateDen, so that 0.0015 is 1500 and one basis point is 100
RateDen == 1000000

\* basis points per unit of rate, digest.py:330
BpsFactor == 10000

Abs(x) == IF x < 0 THEN -x ELSE x

\* get_binance_funding / get_bybit_funding, digest.py:220-246: (None, None)
\* on any failure, else the rate (0.0 when the field is missing) and the
\* funding time
FundingResults(n, z) ==
    {Null} \cup
    {Ok([fr |-> fr, ts |-> ts]) :
        fr \in {-1500, -1000, 0, 500, 999, 1000},
        ts \in {TodayStart(n, z) - 1, TodayStart(n, z), TodayEnd(n, z),
                TomorrowEnd(n, z)}}

FundingExtremeStrict(fr, thr) == Abs(fr) * BpsFactor > thr * RateDen

\* bps = abs(fr) * 10000.0; bps >= funding_thr_bps, digest.py:330-331, with
\* both sides multiplied by RateDen
FundingExtreme(fr, thr) == Abs(fr) * BpsFactor >= thr * RateDen

\* the line built for one funding result, digest.py:329-335: none when the
\* rate was not fetched or is below the threshold
FundingLine(f, rq, c) ==
    IF f.k = "ok" /\ FundingExtreme(f.v.fr, c.funding_extreme_threshold_bps)
    THEN Ok([time |-> f.v.ts, title |-> rq.exchange])
    ELSE Null

\* the request the funding loop is at, digest.py:324-343
FundingAt(c, left) ==
    LET q == FundingQueue(c.tickers, c.funding_exchanges)
    IN q[Len(q) - left + 1]

\* one funding request with the result f, and its line, digest.py:327-355;
\* res is not read after the Deribit block
FundingRequestOn(f) ==
    /\ sect = "derivatives" /\ spc = "funding"
    /\ srcs_left > 0
    /\ LET line == FundingLine(f, FundingAt(cfg, srcs_left), cfg)
           b == IF line.k = "ok" THEN DerivBucket(line.v.time, now, tz)
                ELSE "dropped"
       IN /\ today' = IF b = "today" THEN Append(today, line.v) ELSE today
          /\ tomorrow' = IF b = "tomorrow" THEN Append(tomorrow, line.v)
                         ELSE tomorrow
    /\ it' = <<>>
    /\ srcs_left' = srcs_left - 1
    /\ UNCHANGED <<sect, cfg, now, tz, spc, section>>
    /\ UNCHANGED <<chunkVars, fetchVars, delivVars>>

FundingRequest == \E f \in FundingResults(now, tz) : FundingRequestOn(f)

\* the section as built up to the point where the source breaks off
DerivReturn ==
    /\ sect = "derivatives" /\ spc = "funding"
    /\ srcs_left = 0
    /\ section' = [today |-> today, tomorrow |-> tomorrow]
    /\ spc' = "done"
    /\ it' = <<>>
    /\ UNCHANGED <<sect, cfg, now, tz, srcs_left, today, tomorrow>>
    /\ UNCHANGED <<chunkVars, fetchVars, delivVars>>

----------------------------------------------------------------------------
(* Calls of the fetchers, digest.py:63-84 *)

JsonResponses ==
    {[request_raises |-> rr, status_code |-> sc, body |-> b] :
        rr \in BOOLEAN, sc \in {200, 404, 503},
        b \in {Ok(k) : k \in 0..MaxEntries} \cup {Bad}}

\* entries as a feed can deliver them: each date field parseable, unparseable
\* or missing; the title a string, missing, or None
RawEntries ==
    {[published |-> p, updated |-> u, created |-> c, title |-> ti] :
        p \in {Ok(1), Bad, Absent},
        u \in {Ok(2), Bad},
        c \in {Ok(3), Absent},
        ti \in {Ok(TitleList), Absent, Null}}

RawFeeds ==
    {[parse_raises |-> FALSE, entries |-> es] :
        es \in SeqsUpTo(RawEntries, MaxEntries)}
    \cup {[parse_raises |-> TRUE, entries |-> <<>>]}

NoCall == [fn |-> "none"]

FetchStart == call = NoCall /\ ret = Ret(Null)

CallFetchJson ==
    /\ call = NoCall
    /\ \E resp \in JsonResponses :
          /\ call' = [fn |-> "fetch_json", resp |-> resp]
          /\ ret' = FetchJson(resp)
    /\ UNCHANGED <<chunkVars, sectVars, delivVars>>

CallFetchRssItems ==
    /\ call = NoCall
    /\ \E feed \in RawFeeds, limit \in {1, 50}, n \in Nows :
          /\ call' = [fn |-> "fetch_rss_items", feed |-> feed, limit |-> limit,
                      now |-> n]
          /\ ret' = FetchRssItems(feed, limit, n)
    /\ UNCHANGED <<chunkVars, sectVars, delivVars>>

----------------------------------------------------------------------------
(* notifier.py: the run of the script, and tg_send of digest.py *)

chunk == 3500        \* notifier.py:31

\* `not x` of a value of os.getenv: unset (None) or empty
Truthy(x) == x.k = "ok" /\ x.v # ""

EnvValues == {Null, Ok(""), Ok("secret")}

\* the requests of build_message, notifier.py:191-270, in order (the klines
\* requests of binance_intraday_movers, one per symbol of its pool, are not
\* counted)
BuildRequests ==
    <<"ticker_BTCUSDT", "ticker_ETHUSDT", "price_ETHBTC", "klines_BTCUSDT",
      "klines_ETHUSDT", "funding_BTCUSDT", "funding_ETHUSDT", "oi_BTCUSDT",
      "oi_ETHUSDT", "yfinance", "watchlist_24hr", "movers_24hr">>

TextLens == {k * chunk + r : k \in 0..(MaxChunks - 1), r \in {1, chunk}}

SendOutcomes == {"ok", "http_error", "exception"}

\* notifier.py:7-8, read at import
NotifierStart ==
    /\ prog = "notifier"
    /\ BOT_TOKEN \in EnvValues
    /\ CHAT_ID \in EnvValues
    /\ npc = "build"
    /\ fetches = 0
    /\ text_len = 0
    /\ off = 0
    /\ send_log = <<>>
    /\ raised = FALSE
    /\ exit_code = Null

\* one get_json of build_message (fail-soft, notifier.py:17-24): a request
\* goes out whatever the environment holds
BuildFetch ==
    /\ prog = "notifier" /\ npc = "build"
    /\ fetches < Len(BuildRequests)
    /\ fetches' = fetches + 1
    /\ UNCHANGED <<prog, BOT_TOKEN, CHAT_ID, npc, text_len, off, send_log,
                   raised, exit_code>>
    /\ UNCHANGED <<chunkVars, sectVars, fetchVars>>

\* return "\n".join(lines), notifier.py:270, and the call of tg_send,
\* notifier.py:276/279
BuildDone ==
    /\ prog = "notifier" /\ npc = "build"
    /\ fetches = Len(BuildRequests)
    /\ text_len' \in TextLens
    /\ npc' = "tg_send"
    /\ UNCHANGED <<prog, BOT_TOKEN, CHAT_ID, fetches, off, send_log, raised,
                   exit_code>>
    /\ UNCHANGED <<chunkVars, sectVars, fetchVars>>

\* notifier.py:27-29: print and return; the script then ends normally
SendWithoutSecrets ==
    /\ prog = "notifier" /\ npc = "tg_send"
    /\ ~Truthy(BOT_TOKEN) \/ ~Truthy(CHAT_ID)
    /\ npc' = "exit"
    /\ exit_code' = Ok(0)
    /\ UNCHANGED <<prog, BOT_TOKEN, CHAT_ID, fetches, text_len, off, send_log,
                   raised>>
    /\ UNCHANGED <<chunkVars, sectVars, fetchVars>>

\* one iteration of `for i in range(0, len(text), chunk)`, notifier.py:32-40:
\* the status of the response is not looked at and an exception is swallowed
SendChunkOn(outcome) ==
    /\ prog = "notifier" /\ npc = "tg_send"
    /\ Truthy(BOT_TOKEN) /\ Truthy(CHAT_ID)
    /\ off < text_len
    /\ send_log' = Append(send_log, outcome)
    /\ off' = off + chunk
    /\ UNCHANGED <<prog, BOT_TOKEN, CHAT_ID, npc, fetches, text_len, raised,
                   exit_code>>
    /\ UNCHANGED <<chunkVars, sectVars, fetchVars>>

SendChunk == \E outcome \in SendOutcomes : SendChunkOn(outcome)

\* the loop is over: tg_send returns and the script ends
SendDone ==
    /\ prog = "notifier" /\ npc = "tg_send"
    /\ Truthy(BOT_TOKEN) /\ Truthy(CHAT_ID)
    /\ off >= text_len
    /\ npc' = "exit"
    /\ exit_code' = Ok(0)
    /\ UNCHANGED <<prog, BOT_TOKEN, CHAT_ID, fetches, text_len, off, send_log,
                   raised>>
    /\ UNCHANGED <<chunkVars, sectVars, fetchVars>>

\* tg_send of digest.py called on one chunk of text_len characters
DigestSendStart ==
    /\ prog = "digest"
    /\ BOT_TOKEN \in {Ok("secret")}
    /\ CHAT_ID \in {Ok("secret")}
    /\ npc = "tg_send"
    /\ fetches = 0
    /\ text_len \in TextLens
    /\ off = 0
    /\ send_log = <<>>
    /\ raised = FALSE
    /\ exit_code = Null

\* digest.py:36-47: one POST; RuntimeError on a status >= 400, and an
\* exception of requests.post is not caught
DigestTgSend ==
    /\ prog = "digest" /\ npc = "tg_send"
    /\ \E outcome \in SendOutcomes :
          /\ send_log' = Append(send_log, outcome)
          /\ raised' = (outcome # "ok")
    /\ npc' = "returned"
    /\ UNCHANGED <<prog, BOT_TOKEN, CHAT_ID, fetches, text_len, off, exit_code>>
    /\ UNCHANGED <<chunkVars, sectVars, fetchVars>>

DelivIdle ==
    /\ prog = "none" /\ BOT_TOKEN = Null /\ CHAT_ID = Null /\ npc = "idle"
    /\ fetches = 0 /\ text_len = 0 /\ off = 0 /\ send_log = <<>>
    /\ raised = FALSE /\ exit_code = Null

FetchIdle == call = NoCall /\ ret = Ret(Null)

----------------------------------------------------------------------------
(* Specifications *)

ChunkIdle ==
    /\ text = <<>> /\ max_len = 1 /\ buf = <<>> /\ parts = <<>>
    /\ cut = -1 /\ cpc = "idle"

SectIdle ==
    /\ sect = "none" /\ cfg = DefaultCfg /\ now = 0 /\ tz = 0
    /\ srcs_left = 0 /\ it = <<>> /\ today = <<>> /\ tomorrow = <<>>
    /\ spc = "idle" /\ section = NoSection

\* split_chunks on every text and limit
ChunkInit == ChunkStart /\ SectIdle /\ FetchIdle /\ DelivIdle

SpecChunks == ChunkInit /\ [][ChunkNext]_vars

\* the same run with the interpreter always executing the next statement of
\* the function while there is one
SpecChunksFair == ChunkInit /\ [][ChunkNext]_vars /\ WF_vars(ChunkNext)

\* one section builder, on every configuration and every fetched data
SectInit ==
    /\ ChunkIdle /\ FetchIdle /\ DelivIdle
    /\ FeedStart \/ MacroStart \/ DerivStart

SectNext ==
    \/ ListingsDisabled \/ FetchSource \/ BucketEntry \/ FeedSectionReturn
    \/ MacroDisabled \/ MacroFetch \/ MacroEvent \/ MacroReturn
    \/ DerivDisabled \/ DeribitCurrency \/ FundingRequest \/ DerivReturn

SpecSections == SectInit /\ [][SectNext]_vars

\* calls of fetch_json and fetch_rss_items on every outcome
FetchInit == ChunkIdle /\ SectIdle /\ DelivIdle /\ FetchStart

FetchNext == CallFetchJson \/ CallFetchRssItems

SpecFetch == FetchInit /\ [][FetchNext]_vars

\* a run of notifier.py, or a call of tg_send of digest.py
DelivInit ==
    /\ ChunkIdle /\ SectIdle /\ FetchIdle
    /\ NotifierStart \/ DigestSendStart

DelivNext ==
    \/ BuildFetch \/ BuildDone \/ SendWithoutSecrets \/ SendChunk \/ SendDone
    \/ DigestTgSend

SpecDelivery == DelivInit /\ [][DelivNext]_vars

----------------------------------------------------------------------------
(* Claims about split_chunks *)

AllNL(s) == \A k \in 1..Len(s) : s[k] = NL
IsPrefix(p, s) == Len(p) <= Len(s) /\ SubSeq(s, 1, Len(p)) = p

\* t is ps[1], a run of newlines, ps[2], a run of newlines, ... in order
RECURSIVE RejoinsUpToNewlines(_, _)
RejoinsUpToNewlines(ps, t) ==
    IF ps = <<>> THEN AllNL(t)
    ELSE /\ IsPrefix(Head(ps), t)
         /\ LET rest == Drop(t, Len(Head(ps)))
            IN \E k \in 0..Len(rest) :
                  /\ AllNL(Take(rest, k))
                  /\ RejoinsUpToNewlines(Tail(ps), Drop(rest, k))

\* C3 (as stated): the chunks of split_chunks(text, max_len), concatenated in
\* order, are the original text.
C3_ConcatIsText == cpc = "done" => Concat(parts) = text

\* C3 (amended): the original text is the chunks in order with a (possibly
\* empty) run of newlines after each chunk: only newlines at the cut points
\* are dropped, nothing else is lost, added or reordered; a text that fits
\* max_len is reproduced exactly.
C3_RejoinUpToCutNewlines ==
    cpc = "done" =>
        IF Len(text) <= max_len THEN Concat(parts) = text
        ELSE RejoinsUpToNewlines(parts, text)

\* a cut at a newline dropped that newline, and text follows it
C3_Witness ==
    /\ cpc = "done"
    /\ Len(parts) >= 2
    /\ Concat(parts) # text
    /\ \E k \in 1..Len(text) : text[k] = NL
    /\ parts[Len(parts)] # <<>>

\* C4: whenever an iteration cuts buf at a position that does not hold a
\* newline, buf has no newline at the positions 0..max_len.
C4_HardCutOnlyWithoutNewline ==
    [][ (cpc = "loop" /\ Len(buf) > max_len /\ buf[cut' + 1] # NL)
          => \A k \in 0..max_len : buf[k + 1] # NL ]_vars

\* the first line was cut hard at the limit although the text has a newline
\* further on
C4_Witness ==
    /\ cut = max_len
    /\ Len(parts) >= 1
    /\ Len(parts[1]) = max_len
    /\ \A k \in 1..(max_len + 1) : text[k] # NL
    /\ \E k \in 1..Len(text) : text[k] = NL

\* C5 (as stated): every chunk is at most max_len long, and a text of length
\* <= max_len comes back as the single chunk <<text>>.
C5_BoundedAndSingle ==
    cpc = "done" =>
        /\ \A k \in 1..Len(parts) : Len(parts[k]) <= max_len
        /\ Len(text) <= max_len => parts = <<text>>

\* C5 (amended): every chunk is at most max_len long, and a non-empty text of
\* length <= max_len comes back as the single chunk <<text>>; the empty text
\* gives no chunk at all.
C5_BoundedAndSingleNonEmpty ==
    cpc = "done" =>
        /\ \A k \in 1..Len(parts) : Len(parts[k]) <= max_len
        /\ (text # <<>> /\ Len(text) <= max_len) => parts = <<text>>
        /\ text = <<>> => parts = <<>>

\* a text longer than max_len without newline was cut into full chunks
C5_Witness ==
    /\ cpc = "done"
    /\ Len(parts) >= 2
    /\ Len(parts[1]) = max_len
    /\ \A k \in 1..Len(text) : text[k] # NL

----------------------------------------------------------------------------
(* Claims about the section builders *)

InToday(t) == TodayStart(now, tz) <= t /\ t < TodayEnd(now, tz)
InTomorrow(t) == TodayEnd(now, tz) <= t /\ t < TomorrowEnd(now, tz)

\* the entry at the head of `it` reaches the bucketing of a feed section
BucketingHead ==
    /\ sect \in {"listings", "status"} /\ spc = "fetch" /\ it # <<>>
    /\ sect = "listings" => HasListingKeyword(Head(it).title)

\* C1: an item stamped t goes to 'today' iff todayStart <= t < tomorrowStart,
\* to 'tomorrow' iff tomorrowStart <= t < dayAfterStart, and nowhere
\* otherwise, never to both: for every entry bucketed by section_listings and
\* section_status, for the bucket section_derivatives chooses for a line, and
\* for every line section_derivatives holds.
C1_DayBuckets ==
    [][ /\ BucketingHead =>
            /\ (today' = Append(today, Head(it))) <=> InToday(Head(it).time)
            /\ (tomorrow' = Append(tomorrow, Head(it)))
                   <=> InTomorrow(Head(it).time)
            /\ ~InToday(Head(it).time) => today' = today
            /\ ~InTomorrow(Head(it).time) => tomorrow' = tomorrow
            /\ today' = today \/ tomorrow' = tomorrow
        /\ sect = "derivatives" =>
            /\ \A t \in (TodayStart(now, tz) - 1)..(TomorrowEnd(now, tz) + 1) :
                  /\ DerivBucket(t, now, tz) = "today" <=> InToday(t)
                  /\ DerivBucket(t, now, tz) = "tomorrow" <=> InTomorrow(t)
            /\ \A k \in 1..Len(today') : InToday(today'[k].time)
            /\ \A k \in 1..Len(tomorrow') : InTomorrow(tomorrow'[k].time)
      ]_vars

\* a feed section put an entry stamped todayStart in 'today' and an entry
\* stamped tomorrowStart in 'tomorrow', and dropped others
C1_Witness ==
    /\ sect \in {"listings", "status"} /\ spc = "done"
    /\ \E k \in 1..Len(today) : today[k].time = TodayStart(now, tz)
    /\ \E k \in 1..Len(tomorrow) : tomorrow[k].time = TodayEnd(now, tz)
    /\ Len(today) + Len(tomorrow) = 2

\* C2: the 'today' and the 'tomorrow' list returned by section_listings,
\* section_status and section_macro_forexfactory hold at most N entries.
C2_AtMostN ==
    (sect \in {"listings", "status", "macro"} /\ spc = "done") =>
        Len(section.today) <= N /\ Len(section.tomorrow) <= N

IsAscending(s) == \A k \in 1..(Len(s) - 1) : s[k].time <= s[k + 1].time
IsDescending(s) == \A k \in 1..(Len(s) - 1) : s[k].time >= s[k + 1].time

\* C6 (as stated): the returned 'today' and 'tomorrow' lists of
\* section_listings, section_status and section_macro_forexfactory are sorted
\* ascending by time.
C6_SortedAscending ==
    (sect \in {"listings", "status", "macro"} /\ spc = "done") =>
        IsAscending(section.today) /\ IsAscending(section.tomorrow)

\* C6 (amended): the returned lists are sorted by time: descending (latest
\* first) in section_listings and section_status, ascending in
\* section_macro_forexfactory.
C6_SortedByTime ==
    /\ (sect \in {"listings", "status"} /\ spc = "done") =>
          IsDescending(section.today) /\ IsDescending(section.tomorrow)
    /\ (sect = "macro" /\ spc = "done") =>
          IsAscending(section.today) /\ IsAscending(section.tomorrow)

\* a feed section returned, latest first, two entries fetched soonest first
C6_Witness ==
    /\ sect \in {"listings", "status"} /\ spc = "done"
    /\ Len(today) = 2 /\ today[1].time < today[2].time
    /\ section.today = <<today[2], today[1]>>

\* the notional of the well-formed instruments of res that expire at t
RECURSIVE WellFormedNotional(_, _)
WellFormedNotional(res, t) ==
    IF res = <<>> THEN 0
    ELSE LET i == Head(res)
             wf == /\ i.expiration_timestamp.k # "bad"
                   /\ i.underlying_price.k # "bad"
                   /\ i.open_interest.k # "bad"
                   /\ ExpiryOf(i) = Ret(Ok(t))
         IN (IF wf THEN FloatOrZero(i.open_interest).value
                        * FloatOrZero(i.underlying_price).value
             ELSE 0)
            + WellFormedNotional(Tail(res), t)

HasLineAt(lines, t) == \E k \in 1..Len(lines) : lines[k].time = t

\* C10 (Deribit block): whatever field of an instrument is bad or missing,
\* the well-formed instruments of the book summary still count: an expiry
\* today or tomorrow whose well-formed instruments reach the threshold has its
\* line.
C10_BadItemIsLocal ==
    (sect = "derivatives" /\ spc \in {"deribit", "funding"}) =>
        \A t \in DeribitTimes(now, tz) :
            WellFormedNotional(it, t) >= cfg.deribit_expiry_notional_min_usd =>
                /\ InToday(t) => HasLineAt(today, t)
                /\ InTomorrow(t) => HasLineAt(tomorrow, t)

\* the same holds of the code as long as no field of the summary is a value
\* the conversions reject
NoBadField(res) ==
    \A k \in 1..Len(res) :
        /\ res[k].expiration_timestamp.k # "bad"
        /\ res[k].underlying_price.k # "bad"
        /\ res[k].open_interest.k # "bad"

C10_HoldsWithoutBadField ==
    (sect = "derivatives" /\ spc \in {"deribit", "funding"} /\ NoBadField(it)) =>
        \A t \in DeribitTimes(now, tz) :
            WellFormedNotional(it, t) >= cfg.deribit_expiry_notional_min_usd =>
                /\ InToday(t) => HasLineAt(today, t)
                /\ InTomorrow(t) => HasLineAt(tomorrow, t)

----------------------------------------------------------------------------
(* Claims about the secrets and the delivery *)

SecretMissing == ~Truthy(BOT_TOKEN) \/ ~Truthy(CHAT_ID)

\* C7: when the bot token or the chat id is missing, no network request is
\* issued at any point of the run, and the run ends with a non-zero exit code.
C7_MissingSecretIsFatalBeforeNetwork ==
    (prog = "notifier" /\ SecretMissing) =>
        /\ fetches = 0
        /\ send_log = <<>>
        /\ npc = "exit" => exit_code # Ok(0)

\* C8: in tg_send of digest.py and of notifier.py a failed send (a
\* non-success response or a request error) is raised to the caller and no
\* chunk is sent after it.
C8_FailedSendIsFatal ==
    \A k \in 1..Len(send_log) :
        send_log[k] # "ok" => (k = Len(send_log) /\ raised)

\* the part of C8 that tg_send of digest.py meets
C8_DigestSendRaises ==
    prog = "digest" =>
        \A k \in 1..Len(send_log) :
            send_log[k] # "ok" => (k = Len(send_log) /\ raised)

----------------------------------------------------------------------------
(* Claims about the fetchers *)

RssFails(feed, limit) ==
    \/ feed.parse_raises
    \/ \E k \in 1..Min2(limit, Len(feed.entries)) : feed.entries[k].title = Null

\* C9: the fetchers never raise: fetch_rss_items returns a list, empty when
\* the parse or an entry fails and with one item per entry (up to the limit)
\* otherwise; fetch_json returns the parsed body when the request succeeds
\* with status 200 and a body that parses, and None in every other case.
C9_FetchersNeverRaise ==
    /\ call.fn = "fetch_rss_items" =>
          /\ ~ret.raised
          /\ RssFails(call.feed, call.limit) => ret.value = <<>>
          /\ ~RssFails(call.feed, call.limit) =>
                Len(ret.value) = Min2(call.limit, Len(call.feed.entries))
    /\ call.fn = "fetch_json" =>
          /\ ~ret.raised
          /\ ret.value =
                IF /\ ~call.resp.request_raises
                   /\ call.resp.status_code = 200
                   /\ call.resp.body.k = "ok"
                THEN Ok(call.resp.body.v) ELSE Null

\* fetch_rss_items met an entry whose title is None after a good entry, and
\* returned the empty list
C9_Witness ==
    /\ call.fn = "fetch_rss_items"
    /\ ~call.feed.parse_raises
    /\ Len(call.feed.entries) = 2
    /\ call.limit >= 2
    /\ call.feed.entries[1].title.k = "ok"
    /\ call.feed.entries[2].title = Null
    /\ ret = Ret(<<>>)

\* C10 (feeds): an entry with a bad field does not cost the feed its other
\* entries: fetch_rss_items returns one item per entry read.
C10_BadEntryIsLocal ==
    (call.fn = "fetch_rss_items" /\ ~call.feed.parse_raises) =>
        /\ ~ret.raised
        /\ Len(ret.value) = Min2(call.limit, Len(call.feed.entries))

----------------------------------------------------------------------------
(* Claims about the funding extremes *)

\* the rate fr is at or above thr basis points in absolute value
AtLeastBps(fr, thr) ==
    \/ fr >= 0 /\ fr * 10000 >= thr * RateDen
    \/ fr < 0 /\ (0 - fr) * 10000 >= thr * RateDen

FundingLines(items) == SelectSeq(items, LAMBDA l : l.title \in {"Binance", "Bybit"})

\* C11: for every funding request whose rate was fetched, a funding line is
\* built exactly when the absolute rate in basis points is at or above
\* funding_extreme_threshold_bps, positive and negative rates alike, and
\* the line goes to the bucket of its funding time; when the rate could not
\* be fetched no line is built and nothing is added to the section.
C11_FundingFlaggedIffExtreme ==
    [][\A f \in FundingResults(now, tz) : FundingRequestOn(f) =>
          LET thr == cfg.funding_extreme_threshold_bps
              line == FundingLine(f, FundingAt(cfg, srcs_left), cfg)
              added == (today \o tomorrow) # (today' \o tomorrow')
          IN /\ f.k = "ok" => (line.k = "ok" <=> AtLeastBps(f.v.fr, thr))
             /\ f.k = "ok" =>
                   (added <=> /\ AtLeastBps(f.v.fr, thr)
                              /\ InToday(f.v.ts) \/ InTomorrow(f.v.ts))
             /\ added /\ InToday(f.v.ts) => today' = Append(today, line.v)
             /\ added /\ InTomorrow(f.v.ts) =>
                   tomorrow' = Append(tomorrow, line.v)
             /\ f.k # "ok" => line = Null /\ ~added]_vars

\* both exchanges were asked for the one asset: the Binance rate was extreme
\* and its line is in a bucket, the Bybit rate gave no line
C11_Witness ==
    /\ sect = "derivatives" /\ spc = "funding" /\ srcs_left = 0
    /\ cfg.funding_exchanges = {"binance", "bybit"}
    /\ Len(FundingLines(today \o tomorrow)) = 1
    /\ FundingLines(today \o tomorrow)[1].title = "Binance"

----------------------------------------------------------------------------
(* Claims about the macro calendar *)

\* the event passes the time window, the region filter and the impact filter
\* as the configuration states them
InWindow(ev) ==
    /\ ~EventTime(ev).raised
    /\ EventTime(ev).value.k = "ok"
    /\ now <= EventTime(ev).value.v
    /\ EventTime(ev).value.v <= EndLocal(now, cfg)

CountryOfRegions(ev) ==
    /\ ev.country.k = "ok"
    /\ \E r \in cfg.regions : ev.country.v \in RegionCountries(r)

ImpactWanted(ev) ==
    /\ ev.impact.k = "ok"
    /\ IF cfg.high_impact_only THEN ev.impact.v = "High"
       ELSE ev.impact.v \in {"High", "Medium"}

MacroKeeps(ev) ==
    MacroEventOn(ev) /\ (today' # today \/ tomorrow' # tomorrow)

\* C12: every event kept by section_macro_forexfactory (in 'today' or
\* 'tomorrow') has its local time in [now, now + lookahead_hours], its
\* country among the codes mapped from the configured regions, and an impact
\* of high (high or medium when high_impact_only is off), for every region
\* list, those holding only regions without a mapping included.
C12_KeptEventPassesFilters ==
    [][\A ev \in MacroEvents(now, tz, cfg) :
          MacroKeeps(ev) =>
              InWindow(ev) /\ CountryOfRegions(ev) /\ ImpactWanted(ev)]_vars

\* the same with the region filter read as the code applies it: no filter
\* when no configured region has a mapping
C12_HoldsWhenARegionIsMapped ==
    [][\A ev \in MacroEvents(now, tz, cfg) :
          MacroKeeps(ev) =>
              /\ InWindow(ev)
              /\ Allowed(cfg.regions) # {} => CountryOfRegions(ev)
              /\ ImpactWanted(ev)]_vars

\* C14: every event in the 'tomorrow' bucket of section_macro_forexfactory
\* has its local time on the local day after today, in
\* [tomorrowStart, dayAfterStart), for every now and lookahead_hours.
C14_TomorrowIsTomorrow ==
    sect = "macro" =>
        \A k \in 1..Len(tomorrow) : InTomorrow(tomorrow[k].time)

\* the same for 'today', which is bucketed by within_day
C14_TodayIsToday ==
    sect = "macro" =>
        \A k \in 1..Len(today) : InToday(today[k].time)

----------------------------------------------------------------------------
(* Termination of split_chunks *)

\* C13: split_chunks terminates for every text and every max_len >= 1: each
\* iteration of the loop strictly shortens the remaining buffer, also when
\* the buffer starts with a newline (cut position 0) and when it holds no
\* newline at all, and the function returns.
C13_Terminates ==
    /\ [][ChunkLoop => Len(buf') < Len(buf)]_vars
    /\ <>(cpc = "done")

\* the function has returned after a cut at position 0 (the text starts with
\* a newline, the first chunk is empty) and a last cut at max_len in a buffer
\* without a newline
C13_Witness ==
    /\ cpc = "done"
    /\ Len(text) > max_len
    /\ Head(text) = NL
    /\ Len(parts) >= 3
    /\ parts[1] = <<>>
    /\ cut = max_len
    /\ \A k \in 1..Len(parts[Len(parts)]) : parts[Len(parts)][k] # NL

====
